---------------------------- MODULE Spec2Model ----------------------------
(***************************************************************************)
(* A model of the retirement simulator (src/retirement_simulator.py) and   *)
(* of the tax helpers of the first script (src/retirement_calculator.py).  *)
(*                                                                         *)
(* Numbers.  The program computes in Python floats.  Here a currency       *)
(* amount is an integer number of thousandths of a dollar and a rate is an *)
(* integer number of thousandths (0.07 is 70); a product amount*rate is    *)
(* rounded down to the next thousandth of a dollar.  Ages are integers.    *)
(* None is the empty sequence << >> and a present value v is <<v>>.        *)
(***************************************************************************)
EXTENDS Integers, Sequences, FiniteSets, TLC

VARIABLES
    pc,             \* position of the calling script
    heap,           \* the Event objects, by reference (index)
    events,         \* the list the caller passes to the constructor
    self,           \* the simulator the caller builds
    newSimulation,  \* the simulator get_earliest_retirement builds
    run,            \* the activation of run_simulation in progress
    search,         \* the activation of get_earliest_retirement in progress
    result,         \* what get_earliest_retirement reported
    call,           \* the last call of a tax calculator (tax calls only)
    results         \* the ledger the caller kept (sim1_results = sim1.summaryDf)

vars ==
    <<pc, heap, events, self, newSimulation, run, search, result, call, results>>

None == << >>
Some(v) == <<v>>

(***************************************************************************)
(* Bounds of the model.                                                    *)
(***************************************************************************)
\* ages run from FirstAge to FirstAge + Horizon
Horizon == 4
\* largest yrs_since_base handed to a tax calculator in the tax calls
MaxYears == 3
\* years a simulator lives in the runs that follow a dependent through
\* childhood and college
KidYears == 24

(***************************************************************************)
(* Arithmetic.                                                             *)
(***************************************************************************)
\* float('inf')
Inf == 2147483647

Min(a, b) == IF a < b THEN a ELSE b

\* x * r for an amount x and a rate r (in thousandths), rounded down
MulRate(x, r) == (x \div 1000) * r + ((x % 1000) * r) \div 1000

\* x / (1 + r) for an amount x and a rate r (in thousandths), rounded down
DivGrowth(x, r) ==
    ((x \div (1000 + r)) * 1000) + ((x % (1000 + r)) * 1000) \div (1000 + r)

\* x * (1 + r) ** n; a negative n divides
RECURSIVE Compound(_, _, _)
Compound(x, r, n) ==
    IF x = Inf THEN Inf
    ELSE IF n = 0 THEN x
    ELSE IF n > 0 THEN Compound(x + MulRate(x, r), r, n - 1)
    ELSE Compound(DivGrowth(x, r), r, n + 1)

\* x / (1 + r) ** n, the present-value discount
Discount(x, r, n) == Compound(x, r, 0 - n)

\* round(x, 2): to the nearest cent, a tie to the even cent
Round2(x) ==
    LET q == x \div 10
        r == x % 10
    IN  IF r < 5 THEN q * 10
        ELSE IF r > 5 THEN (q + 1) * 10
        ELSE IF q % 2 = 0 THEN q * 10 ELSE (q + 1) * 10

(***************************************************************************)
(* Tax brackets and calculators.                                           *)
(***************************************************************************)
Bracket(lo, hi, rate) == [lo |-> lo, hi |-> hi, rate |-> rate]

LongTermBrackets ==
    << Bracket(0, 39375000, 100),
       Bracket(39376000, 434550000, 150),
       Bracket(434551000, Inf, 370) >>

FederalBrackets ==
    << Bracket(0, 9700000, 100),
       Bracket(9700000, 39475000, 120),
       Bracket(39475000, 84200000, 220),
       Bracket(84200000, 160725000, 240),
       Bracket(160725000, 204100000, 320),
       Bracket(204100000, 510300000, 350),
       Bracket(510300000, Inf, 370) >>

\* adj_brackets: every boundary times (inflation + 1) ** yrs_since_base
AdjBrackets(brackets, inflation, yrs) ==
    [k \in DOMAIN brackets |->
        Bracket(Compound(brackets[k].lo, inflation, yrs),
                Compound(brackets[k].hi, inflation, yrs),
                brackets[k].rate)]

\* a calculator that adds every bracket's term, whatever the amount
BracketGuardDropped(b, amount) == TRUE

\* "if amnt_to_sell > bracket[0]", the guard of a bracket's term
BracketApplies(b, amount) == amount > b.lo

RECURSIVE BracketSum(_, _, _)
BracketSum(brackets, amount, k) ==
    IF k > Len(brackets) THEN 0
    ELSE (IF BracketApplies(brackets[k], amount)
          THEN MulRate(Min(amount, brackets[k].hi) - brackets[k].lo,
                       brackets[k].rate)
          ELSE 0)
         + BracketSum(brackets, amount, k + 1)

\* retirementSimulator.calculate_longterm_cap_gains_tax
calculate_longterm_cap_gains_tax(sim, amnt_to_sell, yrs_since_base) ==
    BracketSum(AdjBrackets(LongTermBrackets, sim.inflation, yrs_since_base),
               amnt_to_sell, 1)

\* retirementSimulator.calculate_federal_tax: its one argument is
\* yrs_since_base, and the amount it taxes is self.wage
calculate_federal_tax(sim, yrs_since_base) ==
    BracketSum(AdjBrackets(FederalBrackets, sim.inflation, yrs_since_base),
               sim.wage, 1)

\* retirementSimulator.calculate_shortterm_cap_gains_tax: its argument is
\* received by calculate_federal_tax as yrs_since_base.  The exponent is in
\* dollars: whole dollars only.
calculate_shortterm_cap_gains_tax(sim, amnt_to_sell) ==
    calculate_federal_tax(sim, amnt_to_sell \div 1000)

\* retirementSimulator.calculate_state_tax
calculate_state_tax(sim) == MulRate(sim.wage, 100)

\* retirement_calculator.py: the helpers of the first script
calculate_longterm_capital_gains(amnt_to_sell) ==
    BracketSum(LongTermBrackets, amnt_to_sell, 1)

script_calculate_federal_tax(wage) == BracketSum(FederalBrackets, wage, 1)

calculate_shortterm_capital_gains(amnt_to_sell) ==
    script_calculate_federal_tax(amnt_to_sell)


(***************************************************************************)
(* Life events.  An Event object lives in the heap; a list of events is a  *)
(* sequence of heap references.                                            *)
(***************************************************************************)
\* Event.__init__
NewEvent(start_age, net_flow, end_age, duration) ==
    [cls |-> "Event",
     start_age |-> start_age,
     end_age |-> IF duration # 0 THEN start_age + duration ELSE end_age,
     active |-> FALSE,
     net_flow |-> net_flow,
     kid_age |-> 0,
     college |-> FALSE]

\* Kid.__init__
NewKid(start_age, college) ==
    [NewEvent(start_age, 0, Inf, 0) EXCEPT
        !.cls = "Kid", !.kid_age = 0, !.college = college]

\* Event.update
Event_update(e, sim) ==
    [e EXCEPT !.active = (e.start_age <= sim.age /\ sim.age < e.end_age)]

\* a dependent that counts its years from the start, active or not
Kid_updateCountsIdleYears(e, sim) ==
    LET e1 == Event_update(e, sim)
    IN  [e1 EXCEPT
           !.net_flow = IF ~ e1.active THEN @
                        ELSE IF e1.kid_age < 18 THEN 0 - sim.child_costs
                        ELSE IF e1.kid_age < 22 /\ e1.college
                             THEN 0 - sim.college_price
                             ELSE 0,
           !.kid_age = @ + 1]

\* Kid.update
Kid_update(e, sim) ==
    LET e1 == Event_update(e, sim)
    IN  IF e1.active
        THEN [e1 EXCEPT
                !.net_flow = IF e1.kid_age < 18 THEN 0 - sim.child_costs
                             ELSE IF e1.kid_age < 22 /\ e1.college
                                  THEN 0 - sim.college_price
                                  ELSE 0,
                !.kid_age = @ + 1]
        ELSE e1

\* event.update(self), dispatched on the class of the object
update(e, sim) == IF e.cls = "Kid" THEN Kid_update(e, sim) ELSE Event_update(e, sim)

\* retirementSimulator.update_events: the heap after the loop over self.events
RECURSIVE update_events_from(_, _, _)
update_events_from(sim, h, k) ==
    IF k > Len(sim.events) THEN h
    ELSE update_events_from(sim,
            [h EXCEPT ![sim.events[k]] = update(h[sim.events[k]], sim)], k + 1)

update_events(sim, h) == update_events_from(sim, h, 1)

\* retirementSimulator.total_events_net_flow
RECURSIVE net_flow_from(_, _, _)
net_flow_from(sim, h, k) ==
    IF k > Len(sim.events) THEN 0
    ELSE (IF h[sim.events[k]].active THEN h[sim.events[k]].net_flow ELSE 0)
         + net_flow_from(sim, h, k + 1)

total_events_net_flow(sim, h) == net_flow_from(sim, h, 1)

\* a constructor that keeps the caller's list and objects instead of copying
DeepcopyShared(h, ids) == [heap |-> h, ids |-> ids]

\* copy.deepcopy of a list of events: fresh objects, equal field by field
Deepcopy(h, ids) ==
    [heap |-> h \o [k \in 1..Len(ids) |-> h[ids[k]]],
     ids |-> [k \in 1..Len(ids) |-> Len(h) + k]]

(***************************************************************************)
(* The simulator object.                                                   *)
(***************************************************************************)
\* retirementSimulator.__init__: the new object and the heap after the copies
retirementSimulator(h, a) ==
    LET c1 == Deepcopy(h, a.events)
        c2 == Deepcopy(c1.heap, a.events)
    IN  [heap |-> c2.heap,
         obj |->
           [total_wealth |-> a.starting_wealth,
            total_wealth_save |-> a.starting_wealth,
            rate_of_return |-> a.rate_of_return,
            rate_of_return_save |-> a.rate_of_return,
            cost_of_living |-> a.cost_of_living,
            cost_of_living_save |-> a.cost_of_living,
            child_costs |-> a.child_costs,
            child_costs_save |-> a.child_costs,
            college_price |-> a.college_price,
            college_price_save |-> a.college_price,
            inflation |-> a.inflation,
            inflation_save |-> a.inflation,
            wage |-> a.wage,
            wage_save |-> a.wage,
            yearly_raise |-> a.yearly_raise,
            yearly_raise_save |-> a.yearly_raise,
            withdrawl_rate |-> a.withdrawl_rate,
            withdrawl_rate_save |-> a.withdrawl_rate,
            start_working_age |-> a.start_working_age,
            start_working_age_save |-> a.start_working_age,
            target_retirement_age |-> a.target_retirement_age,
            target_retirement_age_save |-> a.target_retirement_age,
            work_till_at_least |-> a.work_till_at_least,
            work_till_at_least_save |-> a.work_till_at_least,
            death_age |-> a.death_age,
            death_age_save |-> a.death_age,
            events |-> c1.ids,
            events_save |-> c2.ids,
            summaryDf |-> None,
            age |-> a.start_working_age]]

\* range(self.start_working_age, self.target_retirement_age): the end
WorkingRangeEnd(sim) == sim.target_retirement_age

\* a second loop that stops before death_age, as the loop of the first
\* script does (retirement_calculator.py, range(retirement_age, death_age))
RetirementRangeExclusive(sim) == sim.death_age

\* range(self.target_retirement_age, self.death_age+1): the end
RetirementRangeEnd(sim) == sim.death_age + 1

(***************************************************************************)
(* The body of a loop of run_simulation, statement by statement.  A frame  *)
(* holds the object, the heap, the loop variable i, the locals             *)
(* withdrawl_pre and withdrawl_post, the row appended to lifetime and a    *)
(* log of the statements that have run and assign or record wealth, wage   *)
(* or costs, in the order they ran.                                        *)
(***************************************************************************)
Frame(sim, h, i) ==
    [obj |-> sim, heap |-> h, i |-> i, withdrawl_pre |-> 0, withdrawl_post |-> 0,
     row |-> None, log |-> << >>]

YrsSinceBase(st) == st.i - st.obj.start_working_age

\* self.update_events(); self.total_wealth += self.total_events_net_flow()
ApplyEvents(st) ==
    LET h1 == update_events(st.obj, st.heap)
    IN  [st EXCEPT !.heap = h1,
                   !.obj.total_wealth = @ + total_events_net_flow(st.obj, h1),
                   !.log = Append(@, "events")]

\* withdrawl_pre = ...; withdrawl_post = ...
Withdrawl(st) ==
    LET withdrawl_pre == MulRate(st.obj.total_wealth, st.obj.withdrawl_rate)
    IN  [st EXCEPT
           !.withdrawl_pre = withdrawl_pre,
           !.withdrawl_post =
               withdrawl_pre
               - calculate_longterm_cap_gains_tax(st.obj, withdrawl_pre, YrsSinceBase(st))]

\* lifetime.append({...}) of the working years
RecordWorking(st) ==
    LET sim == st.obj
    IN  [st EXCEPT
           !.row =
             [Age |-> st.i,
              Total_Wealth |-> sim.total_wealth,
              Portfolio_Returns |-> MulRate(sim.total_wealth, sim.rate_of_return),
              Wage |-> Some(sim.wage),
              Cost_of_Living |-> sim.cost_of_living,
              Withdrawl |-> None,
              Surplus |-> None,
              Surplus_Present |-> None,
              Theoretical_Withdrawl |-> Some(st.withdrawl_post),
              Theoretical_Surplus |-> Some(st.withdrawl_post - sim.cost_of_living),
              Theoretical_Surplus_Present |->
                  Some(Discount(st.withdrawl_post - sim.cost_of_living,
                                sim.inflation, YrsSinceBase(st)))],
           !.log = Append(@, "record")]

\* lifetime.append({...}) of the retirement years
RecordRetirement(st) ==
    LET sim == st.obj
    IN  [st EXCEPT
           !.row =
             [Age |-> st.i,
              Total_Wealth |-> sim.total_wealth,
              Portfolio_Returns |-> MulRate(sim.total_wealth, sim.rate_of_return),
              Wage |-> None,
              Cost_of_Living |-> sim.cost_of_living,
              Withdrawl |-> Some(st.withdrawl_post),
              Surplus |-> Some(st.withdrawl_post - sim.cost_of_living),
              Surplus_Present |->
                  Some(Discount(st.withdrawl_post - sim.cost_of_living,
                                sim.inflation, YrsSinceBase(st))),
              Theoretical_Withdrawl |-> None,
              Theoretical_Surplus |-> None,
              Theoretical_Surplus_Present |-> None],
           !.log = Append(@, "record")]

\* state_tax = ...; federal_tax = ...;
\* self.total_wealth += (wage - state_tax - federal_tax - cost_of_living)
\*                      + self.total_wealth*self.rate_of_return
Earn(st) ==
    LET sim == st.obj
        state_tax == calculate_state_tax(sim)
        federal_tax == calculate_federal_tax(sim, YrsSinceBase(st))
    IN  [st EXCEPT
           !.obj.total_wealth =
               @ + (sim.wage - state_tax - federal_tax - sim.cost_of_living)
                 + MulRate(@, sim.rate_of_return),
           !.log = Append(@, "wealth")]

\* self.total_wealth += self.total_wealth*self.rate_of_return - withdrawl_pre
Withdraw(st) ==
    [st EXCEPT
       !.obj.total_wealth = @ + MulRate(@, st.obj.rate_of_return) - st.withdrawl_pre,
       !.log = Append(@, "wealth")]

\* "Costs increase each year": the three += statements
InflateCosts(st) ==
    [st EXCEPT
       !.obj.cost_of_living = @ + MulRate(@, st.obj.inflation),
       !.obj.child_costs = @ + MulRate(@, st.obj.inflation),
       !.obj.college_price = @ + MulRate(@, st.obj.inflation),
       !.log = Append(@, "inflation")]

\* self.wage *= (self.yearly_raise+1)
Raise(st) ==
    [st EXCEPT !.obj.wage = @ + MulRate(@, st.obj.yearly_raise),
               !.log = Append(@, "raise")]

\* self.age += 1
AgeOneYear(st) == [st EXCEPT !.obj.age = @ + 1]

\* what an iteration hands to the loop: the heap, the row, the object, and
\* the order in which its statements ran
Iteration(st) == [heap |-> st.heap, row |-> st.row, obj |-> st.obj, order |-> st.log]

\* one iteration of the working-years loop
WorkingYear(sim, h, i) ==
    Iteration(
      AgeOneYear(Raise(InflateCosts(Earn(
        RecordWorking(Withdrawl(ApplyEvents(Frame(sim, h, i)))))))))

\* a retirement year that takes the withdrawal before it inflates the costs
RetirementYearWithdrawFirst(sim, h, i) ==
    Iteration(
      AgeOneYear(InflateCosts(Withdraw(
        RecordRetirement(Withdrawl(ApplyEvents(Frame(sim, h, i))))))))

\* one iteration of the retirement-years loop
RetirementYear(sim, h, i) ==
    Iteration(
      AgeOneYear(Withdraw(InflateCosts(
        RecordRetirement(Withdrawl(ApplyEvents(Frame(sim, h, i))))))))

\* run_simulation as a whole: the two loops from a given position on
RECURSIVE RetirementLoop(_, _, _, _)
RetirementLoop(sim, h, i, lifetime) ==
    IF i < RetirementRangeEnd(sim)
    THEN LET y == RetirementYear(sim, h, i)
         IN  RetirementLoop(y.obj, y.heap, i + 1, Append(lifetime, y.row))
    ELSE [obj |-> sim, heap |-> h, lifetime |-> lifetime]

RECURSIVE WorkingLoop(_, _, _, _)
WorkingLoop(sim, h, i, lifetime) ==
    IF i < WorkingRangeEnd(sim)
    THEN LET y == WorkingYear(sim, h, i)
         IN  WorkingLoop(y.obj, y.heap, i + 1, Append(lifetime, y.row))
    ELSE RetirementLoop(sim, h, sim.target_retirement_age, lifetime)

run_simulation(sim, h) == WorkingLoop(sim, h, sim.start_working_age, << >>)

(***************************************************************************)
(* The ledger (summaryDf) and the selections get_earliest_retirement makes *)
(* on it.  A comparison with a missing value is false.                     *)
(***************************************************************************)
Gt(o, v) == o # None /\ o[1] > v

\* (df['Withdrawl (post tax)'] > df['Cost of Living'])
\*   | (df['Theoretical Withdrawl (post tax)'] > df['Cost of Living'])
Crossing(row) ==
    \/ Gt(row.Withdrawl, row.Cost_of_Living)
    \/ Gt(row.Theoretical_Withdrawl, row.Cost_of_Living)

CrossingMask(df) == [k \in 1..Len(df) |-> Crossing(df[k])]

\* any(vec)
AnyTrue(vec) == \E k \in 1..Len(vec) : vec[k]

\* df[mask] for a mask whose index covers the index of df: the rows of df
\* whose label the mask marks, in order
RECURSIVE SelectFrom(_, _, _)
SelectFrom(df, mask, k) ==
    IF k > Len(df) THEN << >>
    ELSE (IF mask[k] THEN <<df[k]>> ELSE << >>) \o SelectFrom(df, mask, k + 1)

Select(df, mask) == SelectFrom(df, mask, 1)

\* a search that ignores work_till_at_least
BestAgeNotRaised(sim, first_age) == first_age

\* the candidate age: the first crossing age, raised to work_till_at_least
\* (0 stands for an unset, falsy work_till_at_least)
BestAge(sim, first_age) ==
    IF sim.work_till_at_least_save # 0 /\ first_age < sim.work_till_at_least_save
    THEN sim.work_till_at_least
    ELSE first_age

\* events = self.events_save, the list handed to the new simulator
EventsForNew(sim) == sim.events_save

\* the arguments of the retirementSimulator(...) call of the search
NewArguments(sim, best_age) ==
    [starting_wealth |-> sim.total_wealth_save,
     rate_of_return |-> sim.rate_of_return_save,
     cost_of_living |-> sim.cost_of_living_save,
     inflation |-> sim.inflation_save,
     wage |-> sim.wage_save,
     yearly_raise |-> sim.yearly_raise_save,
     withdrawl_rate |-> sim.withdrawl_rate_save,
     start_working_age |-> sim.start_working_age_save,
     target_retirement_age |-> best_age,
     work_till_at_least |-> sim.work_till_at_least_save,
     death_age |-> sim.death_age_save,
     child_costs |-> sim.child_costs_save,
     college_price |-> sim.college_price_save,
     events |-> EventsForNew(sim)]

\* a branch that also takes runs_out = death_age for running out
RunsOutAtOrBefore(runs_out, death_age) == runs_out <= death_age

\* runs_out < self.death_age
RunsOutBefore(runs_out, death_age) == runs_out < death_age

NoResult == [verdict |-> "none"]

\* the rest of get_earliest_retirement once the new simulation has run.
\* .iloc[-1] / .iloc[0] on an empty selection raises IndexError; the base
\* mask vec indexes the new ledger by row label and raises IndexingError
\* when it has no entry for some row of it
Verdict(sim, vec, best_age, newDf) ==
    LET new_vec == CrossingMask(newDf)
        crossing == Select(newDf, new_vec)
    IN  IF crossing = << >>
        THEN [verdict |-> "raised", error |-> "IndexError"]
        ELSE IF Len(vec) < Len(newDf)
        THEN [verdict |-> "raised", error |-> "IndexingError"]
        ELSE LET marked == Select(newDf, vec)
             IN  IF marked = << >>
                 THEN [verdict |-> "raised", error |-> "IndexError"]
                 ELSE
    LET runs_out == crossing[Len(crossing)].Age
        starting_retirement_wealth == Round2(marked[1].Total_Wealth)
        ending_retirement_wealth == Round2(marked[Len(marked)].Total_Wealth)
    IN  [verdict |-> IF RunsOutBefore(runs_out, sim.death_age)
                     THEN "insufficient" ELSE "sustainable",
         best_age |-> best_age,
         runs_out |-> runs_out,
         starting_retirement_wealth |-> starting_retirement_wealth,
         ending_retirement_wealth |-> ending_retirement_wealth,
         delta_TW_retirement |->
             Round2(ending_retirement_wealth - starting_retirement_wealth),
         increasing_TW |-> ending_retirement_wealth > starting_retirement_wealth]

(***************************************************************************)
(* The inputs: what a caller hands to the constructor.                     *)
(***************************************************************************)
\* the default start_working_age
FirstAge == 22

Dollars(n) == n * 1000

Ages == (FirstAge - 1)..(FirstAge + Horizon + 1)

\* the event lists a caller passes; the second is the default, [Kid(27)],
\* and the last is one large expense in a single year
EventLists ==
    { << >>,
      << NewKid(27, TRUE) >>,
      << NewKid(FirstAge + 1, TRUE) >>,
      << NewEvent(FirstAge + 2, Dollars(0 - 5000), Inf, 2), NewKid(FirstAge, FALSE) >>,
      << NewEvent(FirstAge + 3, Dollars(0 - 75000), Inf, 1) >> }

\* the money arguments: the defaults, and three households near the point
\* where a 4% withdrawal covers the cost of living
Finances ==
    { [starting_wealth |-> Dollars(0 - 30000), rate_of_return |-> 70,
       cost_of_living |-> Dollars(40000), wage |-> Dollars(80000)],
      [starting_wealth |-> Dollars(460000), rate_of_return |-> 100,
       cost_of_living |-> Dollars(20000), wage |-> Dollars(80000)],
      [starting_wealth |-> Dollars(560000), rate_of_return |-> 70,
       cost_of_living |-> Dollars(20000), wage |-> Dollars(80000)],
      [starting_wealth |-> Dollars(600000), rate_of_return |-> 70,
       cost_of_living |-> Dollars(20000), wage |-> 0] }

Arguments ==
    { [starting_wealth |-> f.starting_wealth,
       rate_of_return |-> f.rate_of_return,
       cost_of_living |-> f.cost_of_living,
       inflation |-> 30,
       wage |-> f.wage,
       yearly_raise |-> 27,
       withdrawl_rate |-> 40,
       start_working_age |-> s,
       target_retirement_age |-> t,
       work_till_at_least |-> w,
       death_age |-> d,
       child_costs |-> Dollars(10000),
       college_price |-> Dollars(40000),
       events |-> events] :
       f \in Finances,
       s \in {FirstAge, FirstAge + 1},
       t \in Ages,
       w \in {0, FirstAge + 1, FirstAge + 3},
       d \in {0 - 1, FirstAge + 1, FirstAge + Horizon} }

(***************************************************************************)
(* The calling script: build a simulator, run it, ask for the earliest     *)
(* retirement.                                                             *)
(***************************************************************************)
NoObject == [built |-> FALSE]
NoRun == [obj |-> "none"]
NoSearch == [active |-> FALSE]
NoCall == [fn |-> "none"]

Obj(o) == IF o = "self" THEN self ELSE newSimulation

Init ==
    /\ pc = "start"
    /\ \E l \in EventLists : heap = l /\ events = [k \in 1..Len(l) |-> k]
    /\ self = NoObject
    /\ newSimulation = NoObject
    /\ run = NoRun
    /\ search = NoSearch
    /\ result = NoResult
    /\ call = NoCall
    /\ results = None

\* sim = retirementSimulator(..., events = events)
Construct ==
    /\ pc = "start"
    /\ \E a \in Arguments :
         LET c == retirementSimulator(heap, a)
         IN  /\ self' = c.obj
             /\ heap' = c.heap
    /\ pc' = "built"
    /\ UNCHANGED <<events, newSimulation, run, search, result, call, results>>

\* sim.run_simulation(): lifetime = [] and the first loop is entered
StartRun ==
    /\ pc = "built"
    /\ run' = [obj |-> "self", loop |-> "working",
               i |-> self.start_working_age, lifetime |-> << >>, order |-> << >>]
    /\ pc' = "running"
    /\ UNCHANGED <<heap, events, self, newSimulation, search, result, call, results>>

\* one year of "for i in range(start_working_age, target_retirement_age)"
WorkingStep ==
    /\ run.obj # "none"
    /\ run.loop = "working"
    /\ run.i < WorkingRangeEnd(Obj(run.obj))
    /\ LET y == WorkingYear(Obj(run.obj), heap, run.i)
       IN  /\ heap' = y.heap
           /\ self' = IF run.obj = "self" THEN y.obj ELSE self
           /\ newSimulation' = IF run.obj = "self" THEN newSimulation ELSE y.obj
           /\ run' = [run EXCEPT !.i = @ + 1, !.lifetime = Append(@, y.row),
                               !.order = y.order]
    /\ UNCHANGED <<pc, events, search, result, call, results>>

\* the first loop is exhausted; the second starts at target_retirement_age
BeginRetirement ==
    /\ run.obj # "none"
    /\ run.loop = "working"
    /\ run.i >= WorkingRangeEnd(Obj(run.obj))
    /\ run' = [run EXCEPT !.loop = "retirement",
                          !.i = Obj(run.obj).target_retirement_age]
    /\ UNCHANGED <<pc, heap, events, self, newSimulation, search, result, call, results>>

\* one year of "for i in range(target_retirement_age, death_age + 1)"
RetirementStep ==
    /\ run.obj # "none"
    /\ run.loop = "retirement"
    /\ run.i < RetirementRangeEnd(Obj(run.obj))
    /\ LET y == RetirementYear(Obj(run.obj), heap, run.i)
       IN  /\ heap' = y.heap
           /\ self' = IF run.obj = "self" THEN y.obj ELSE self
           /\ newSimulation' = IF run.obj = "self" THEN newSimulation ELSE y.obj
           /\ run' = [run EXCEPT !.i = @ + 1, !.lifetime = Append(@, y.row),
                               !.order = y.order]
    /\ UNCHANGED <<pc, events, search, result, call, results>>

\* summaryDf = pd.DataFrame(lifetime), then the selection of the columns,
\* which raises KeyError on a frame built from no rows
FinishRun ==
    /\ run.obj # "none"
    /\ run.loop = "retirement"
    /\ run.i >= RetirementRangeEnd(Obj(run.obj))
    /\ LET done == [Obj(run.obj) EXCEPT !.summaryDf = Some(run.lifetime)]
       IN  /\ self' = IF run.obj = "self" THEN done ELSE self
           /\ newSimulation' = IF run.obj = "self" THEN newSimulation ELSE done
    /\ pc' = IF run.lifetime = << >> THEN "raised"
             ELSE IF run.obj = "self" THEN "ran" ELSE "validated"
    /\ result' = IF run.lifetime = << >>
                 THEN [verdict |-> "raised", error |-> "KeyError"]
                 ELSE result
    /\ run' = NoRun
    /\ UNCHANGED <<heap, events, search, call, results>>

\* get_earliest_retirement on a simulator that has not run
SearchNotRun ==
    /\ pc = "built"
    /\ self.summaryDf = None
    /\ result' = [verdict |-> "not_run"]
    /\ pc' = "done"
    /\ UNCHANGED <<heap, events, self, newSimulation, run, search, call, results>>

\* get_earliest_retirement, no row crosses: the goals cannot be met
SearchUnreachable ==
    /\ pc = "ran"
    /\ self.summaryDf # None
    /\ ~ AnyTrue(CrossingMask(self.summaryDf[1]))
    /\ result' = [verdict |-> "unreachable"]
    /\ pc' = "done"
    /\ UNCHANGED <<heap, events, self, newSimulation, run, search, call, results>>

\* get_earliest_retirement up to newSimulation.run_simulation()
SearchBegin ==
    /\ pc = "ran"
    /\ self.summaryDf # None
    /\ LET df == self.summaryDf[1]
           vec == CrossingMask(df)
       IN  /\ AnyTrue(vec)
           /\ LET best_age == BestAge(self, Select(df, vec)[1].Age)
                  c == retirementSimulator(heap, NewArguments(self, best_age))
              IN  /\ search' = [active |-> TRUE, vec |-> vec, best_age |-> best_age]
                  /\ newSimulation' = c.obj
                  /\ heap' = c.heap
                  /\ run' = [obj |-> "newSimulation", loop |-> "working",
                             i |-> c.obj.start_working_age, lifetime |-> << >>, order |-> << >>]
    /\ pc' = "validating"
    /\ UNCHANGED <<events, self, result, call, results>>

\* get_earliest_retirement after newSimulation.run_simulation()
SearchEnd ==
    /\ pc = "validated"
    /\ result' = Verdict(self, search.vec, search.best_age, newSimulation.summaryDf[1])
    /\ pc' = "done"
    /\ UNCHANGED <<heap, events, self, newSimulation, run, search, call, results>>

Next ==
    \/ Construct
    \/ StartRun
    \/ WorkingStep
    \/ BeginRetirement
    \/ RetirementStep
    \/ FinishRun
    \/ SearchNotRun
    \/ SearchUnreachable
    \/ SearchBegin
    \/ SearchEnd

Spec == Init /\ [][Next]_vars

(***************************************************************************)
(* A caller that keeps the ledger of a run and runs the same simulator     *)
(* again:  sim.run_simulation(); results = sim.summaryDf;                  *)
(* sim.run_simulation().  The households are the two whose wealth stays    *)
(* representable over twice the horizon.                                   *)
(***************************************************************************)
RerunArguments ==
    { a \in Arguments :
        /\ a.starting_wealth \in {Dollars(0 - 30000), Dollars(600000)}
        /\ a.work_till_at_least = 0
        /\ a.death_age >= FirstAge }

RerunInit ==
    /\ pc = "built"
    /\ \E l \in EventLists :
         /\ events = [k \in 1..Len(l) |-> k]
         /\ \E a \in RerunArguments :
              LET c == retirementSimulator(l, a)
              IN  heap = c.heap /\ self = c.obj
    /\ newSimulation = NoObject
    /\ run = NoRun
    /\ search = NoSearch
    /\ result = NoResult
    /\ call = NoCall
    /\ results = None

\* results = sim.summaryDf; sim.run_simulation(): the method starts with
\* lifetime = [] and assigns none of the object's fields before its first loop
RunAgain ==
    /\ pc = "ran"
    /\ results = None
    /\ results' = self.summaryDf
    /\ run' = [obj |-> "self", loop |-> "working",
               i |-> self.start_working_age, lifetime |-> << >>, order |-> << >>]
    /\ pc' = "running"
    /\ UNCHANGED <<heap, events, self, newSimulation, search, result, call>>

RerunNext ==
    \/ StartRun
    \/ WorkingStep
    \/ BeginRetirement
    \/ RetirementStep
    \/ FinishRun
    \/ RunAgain

SpecRerun == RerunInit /\ [][RerunNext]_vars

(***************************************************************************)
(* A simulator that lives long enough for a dependent to pass 18 and 22:   *)
(* one run of run_simulation over KidYears years, with one Kid or two.     *)
(***************************************************************************)
KidLists ==
    { << NewKid(k, c) >> : k \in {FirstAge - 1, FirstAge, FirstAge + 2}, c \in BOOLEAN }
    \cup { << NewKid(FirstAge + 1, TRUE), NewKid(FirstAge, FALSE) >> }

KidArguments ==
    { [a EXCEPT !.death_age = FirstAge + KidYears] :
        a \in { b \in RerunArguments :
                  /\ b.start_working_age = FirstAge
                  /\ b.target_retirement_age \in {FirstAge + 1, FirstAge + 3} } }

KidInit ==
    /\ pc = "built"
    /\ \E l \in KidLists :
         /\ events = [k \in 1..Len(l) |-> k]
         /\ \E a \in KidArguments :
              LET c == retirementSimulator(l, a)
              IN  heap = c.heap /\ self = c.obj
    /\ newSimulation = NoObject
    /\ run = NoRun
    /\ search = NoSearch
    /\ result = NoResult
    /\ call = NoCall
    /\ results = None

KidNext ==
    \/ StartRun
    \/ WorkingStep
    \/ BeginRetirement
    \/ RetirementStep
    \/ FinishRun

SpecKid == KidInit /\ [][KidNext]_vars

(***************************************************************************)
(* The tax calculators on their own: a simulator with a given wage and     *)
(* inflation, and one call of a calculator after another.                  *)
(***************************************************************************)
TaxAmounts ==
    { Dollars(0 - 30000), 0 - 1, 0, 1, Dollars(9700), Dollars(39375), 39375500,
      Dollars(39376), Dollars(80000), Dollars(434551), Dollars(600000) }

TaxArguments ==
    { [starting_wealth |-> Dollars(0 - 30000),
       rate_of_return |-> 70,
       cost_of_living |-> Dollars(40000),
       inflation |-> infl,
       wage |-> w,
       yearly_raise |-> 27,
       withdrawl_rate |-> 40,
       start_working_age |-> FirstAge,
       target_retirement_age |-> 64,
       work_till_at_least |-> 35,
       death_age |-> 100,
       child_costs |-> Dollars(10000),
       college_price |-> Dollars(40000),
       events |-> << >>] :
       w \in TaxAmounts, infl \in {0, 30} }

TaxInit ==
    /\ pc = "tax"
    /\ heap = << >>
    /\ events = << >>
    /\ \E a \in TaxArguments : self = retirementSimulator(<< >>, a).obj
    /\ newSimulation = NoObject
    /\ run = NoRun
    /\ search = NoSearch
    /\ result = NoResult
    /\ call = NoCall
    /\ results = None

TaxFrame ==
    UNCHANGED <<pc, heap, events, self, newSimulation, run, search, result, results>>

\* self.calculate_longterm_cap_gains_tax(amnt_to_sell, yrs_since_base)
CallLongTerm ==
    /\ pc = "tax"
    /\ \E a \in TaxAmounts, y \in 0..MaxYears :
         call' = [fn |-> "calculate_longterm_cap_gains_tax", amount |-> a, yrs |-> y,
                  brackets |-> AdjBrackets(LongTermBrackets, self.inflation, y),
                  tax |-> calculate_longterm_cap_gains_tax(self, a, y)]
    /\ TaxFrame

\* self.calculate_federal_tax(yrs_since_base)
CallFederal ==
    /\ pc = "tax"
    /\ \E y \in 0..MaxYears :
         call' = [fn |-> "calculate_federal_tax", amount |-> self.wage, yrs |-> y,
                  brackets |-> AdjBrackets(FederalBrackets, self.inflation, y),
                  tax |-> calculate_federal_tax(self, y)]
    /\ TaxFrame

\* self.calculate_shortterm_cap_gains_tax(amnt_to_sell), a whole number of dollars
CallShortTerm ==
    /\ pc = "tax"
    /\ \E d \in 0..MaxYears :
         call' = [fn |-> "calculate_shortterm_cap_gains_tax", amount |-> Dollars(d),
                  yrs |-> d,
                  brackets |-> AdjBrackets(FederalBrackets, self.inflation, d),
                  tax |-> calculate_shortterm_cap_gains_tax(self, Dollars(d))]
    /\ TaxFrame

\* retirement_calculator.calculate_longterm_capital_gains(amnt_to_sell)
ScriptLongTerm ==
    /\ pc = "tax"
    /\ \E a \in TaxAmounts :
         call' = [fn |-> "calculate_longterm_capital_gains", amount |-> a, yrs |-> 0,
                  brackets |-> LongTermBrackets,
                  tax |-> calculate_longterm_capital_gains(a)]
    /\ TaxFrame

\* retirement_calculator.calculate_federal_tax(wage)
ScriptFederal ==
    /\ pc = "tax"
    /\ \E a \in TaxAmounts :
         call' = [fn |-> "script_calculate_federal_tax", amount |-> a, yrs |-> 0,
                  brackets |-> FederalBrackets,
                  tax |-> script_calculate_federal_tax(a)]
    /\ TaxFrame

\* retirement_calculator.calculate_shortterm_capital_gains(amnt_to_sell)
ScriptShortTerm ==
    /\ pc = "tax"
    /\ \E a \in TaxAmounts :
         call' = [fn |-> "calculate_shortterm_capital_gains", amount |-> a, yrs |-> 0,
                  brackets |-> FederalBrackets,
                  tax |-> calculate_shortterm_capital_gains(a)]
    /\ TaxFrame

TaxNext ==
    \/ CallLongTerm
    \/ CallFederal
    \/ CallShortTerm
    \/ ScriptLongTerm
    \/ ScriptFederal
    \/ ScriptShortTerm

SpecTax == TaxInit /\ [][TaxNext]_vars

(***************************************************************************)
(* Notions the properties below are stated in.                             *)
(***************************************************************************)
Objects == {"self", "newSimulation"}

\* the simulator exists and a run of it has stored its ledger
HasLedger(o) == Obj(o) # NoObject /\ Obj(o).summaryDf # None

Ledger(o) == Obj(o).summaryDf[1]

\* startWorkingAge < targetRetirementAge <= deathAge
ValidAges(sim) ==
    /\ sim.start_working_age < sim.target_retirement_age
    /\ sim.target_retirement_age <= sim.death_age

\* the first and the last row of a ledger that satisfy the crossing condition
FirstCrossing(df) ==
    df[CHOOSE k \in 1..Len(df) :
         Crossing(df[k]) /\ \A j \in 1..(k - 1) : ~ Crossing(df[j])]

LastCrossing(df) ==
    df[CHOOSE k \in 1..Len(df) :
         Crossing(df[k]) /\ \A j \in (k + 1)..Len(df) : ~ Crossing(df[j])]

HasCrossing(df) == \E k \in 1..Len(df) : Crossing(df[k])

\* the search reported one of its two "you can retire" verdicts
Retirable == result.verdict \in {"insufficient", "sustainable"}

\* the ledger of a simulator built from the caller's event list with the
\* starting parameters of self and the given target retirement age, run alone
RunAlone(target) ==
    LET c == retirementSimulator(heap,
                 [NewArguments(self, target) EXCEPT !.events = events])
    IN  run_simulation(c.obj, c.heap).lifetime

\* a bracket table covers the amounts from 0 on without gap or overlap
Partition(brackets) ==
    /\ brackets[1].lo = 0
    /\ \A k \in 2..Len(brackets) : brackets[k].lo = brackets[k - 1].hi
    /\ brackets[Len(brackets)].hi = Inf

(***************************************************************************)
(* C1.  After run_simulation on a simulator with startWorkingAge <         *)
(* targetRetirementAge <= deathAge, the ledger has exactly deathAge -      *)
(* startWorkingAge + 1 rows, row k (from 0) has age startWorkingAge + k,   *)
(* and no age appears twice.                                               *)
(***************************************************************************)
C1_LedgerAges ==
    \A o \in Objects :
        (HasLedger(o) /\ ValidAges(Obj(o))) =>
            LET df == Ledger(o)
                sim == Obj(o)
            IN  /\ Len(df) = sim.death_age - sim.start_working_age + 1
                /\ \A k \in 1..Len(df) : df[k].Age = sim.start_working_age + (k - 1)
                /\ \A j, k \in 1..Len(df) : j # k => df[j].Age # df[k].Age

\* a finished run with working years and more than one retirement year
C1_Witness ==
    /\ HasLedger("self")
    /\ ValidAges(self)
    /\ self.target_retirement_age < self.death_age
    /\ Len(Ledger("self")) = self.death_age - self.start_working_age + 1

(***************************************************************************)
(* C2.  The federal and the long-term-capital-gains calculators, of the    *)
(* simulator (inflation-scaled brackets) and of the first script (unscaled *)
(* brackets), return a tax of exactly 0 for every amount <= 0.             *)
(***************************************************************************)
C2_NonPositiveAmountNoTax ==
    ( /\ call.fn \in {"calculate_longterm_cap_gains_tax", "calculate_federal_tax",
                      "calculate_longterm_capital_gains", "script_calculate_federal_tax"}
      /\ call.amount <= 0 )
    => call.tax = 0

\* a negative amount taxed under brackets scaled by some years of inflation
C2_Witness ==
    /\ call.fn = "calculate_longterm_cap_gains_tax"
    /\ call.amount < 0
    /\ call.yrs > 0
    /\ self.inflation > 0
    /\ call.tax = 0

(***************************************************************************)
(* C3.  Every bracket table a tax calculator uses, before and after the    *)
(* inflation scaling, partitions the non-negative amounts: it starts at 0, *)
(* each lower bound is the previous upper bound, the last is unbounded.    *)
(***************************************************************************)
C3_BracketsPartition == call.fn # "none" => Partition(call.brackets)

(***************************************************************************)
(* C4.  The short-term-capital-gains calculator returns the progressive    *)
(* federal tax of the amount it is given (under the brackets of some year),*)
(* whatever the simulator's wage.                                          *)
(***************************************************************************)
C4_ShortTermTaxesItsAmount ==
    call.fn \in {"calculate_shortterm_cap_gains_tax", "calculate_shortterm_capital_gains"}
    => \E y \in 0..MaxYears :
          call.tax = BracketSum(AdjBrackets(FederalBrackets, self.inflation, y),
                                call.amount, 1)

(***************************************************************************)
(* C5.  When the base ledger has a crossing row, the candidate age of the  *)
(* validation run is the age of the first such row, raised to              *)
(* workTillAtLeast when that is set and larger; it is never below          *)
(* workTillAtLeast nor below the first crossing age.                       *)
(***************************************************************************)
C5_CandidateAge ==
    search.active =>
        LET first == FirstCrossing(Ledger("self")).Age
            least == self.work_till_at_least
        IN  /\ HasCrossing(Ledger("self"))
            /\ search.best_age = IF least # 0 /\ least > first THEN least ELSE first
            /\ search.best_age >= least
            /\ search.best_age >= first
            /\ newSimulation.target_retirement_age = search.best_age

\* the first crossing age lies below a set workTillAtLeast
C5_Witness ==
    /\ search.active
    /\ self.work_till_at_least # 0
    /\ FirstCrossing(Ledger("self")).Age < self.work_till_at_least
    /\ search.best_age = self.work_till_at_least

(***************************************************************************)
(* C6.  The candidate age c is the earliest viable one: for every age a    *)
(* with max(startWorkingAge, workTillAtLeast) <= a < c, the simulation     *)
(* with the same starting parameters and targetRetirementAge = a has, in   *)
(* its row for age a, a post-tax withdrawal that does not exceed the cost  *)
(* of living.  (Stated for base runs with startWorkingAge <                *)
(* targetRetirementAge <= deathAge.)                                       *)
(***************************************************************************)
C6_CandidateIsEarliest ==
    (search.active /\ ValidAges(self)) =>
        \A a \in self.start_working_age..(search.best_age - 1) :
            a >= self.work_till_at_least =>
                LET alone == RunAlone(a)
                IN  \A k \in 1..Len(alone) :
                        alone[k].Age = a => ~ Crossing(alone[k])

(***************************************************************************)
(* C7.  With runsOutAge the age of the last crossing row of the validation *)
(* ledger, the search reports Retirable-But-Insufficient(candidateAge,     *)
(* runsOutAge) exactly when runsOutAge < deathAge and Retirable-           *)
(* Sustainable otherwise.                                                  *)
(***************************************************************************)
C7_VerdictByRunsOut ==
    /\ Retirable =>
          LET runsOut == LastCrossing(Ledger("newSimulation")).Age
          IN  /\ result.runs_out = runsOut
              /\ result.best_age = newSimulation.target_retirement_age
              /\ (result.verdict = "insufficient") <=> (runsOut < self.death_age)
              /\ (result.verdict = "sustainable") <=> (runsOut >= self.death_age)
    /\ ( /\ pc = "done"
         /\ search.active
         /\ ValidAges(self)
         /\ ValidAges(newSimulation)
         /\ HasCrossing(Ledger("newSimulation")) )
       => Retirable

\* the money runs out before death
C7_Witness ==
    /\ result.verdict = "insufficient"
    /\ ValidAges(self)
    /\ result.runs_out < self.death_age
    /\ result.runs_out >= result.best_age

(***************************************************************************)
(* C8.  In a Retirable-Sustainable verdict, startWealth and endWealth are  *)
(* the validation ledger's wealth (to the cent) at the first and the last  *)
(* row that satisfy the crossing condition in the validation run itself,   *)
(* deltaWealth = endWealth - startWealth, growing = endWealth > startWealth*)
(* (Stated for base runs with startWorkingAge < targetRetirementAge <=     *)
(* deathAge.)                                                              *)
(***************************************************************************)
C8_WealthAtValidationCrossings ==
    (result.verdict = "sustainable" /\ ValidAges(self)) =>
        LET df == Ledger("newSimulation")
            startWealth == Round2(FirstCrossing(df).Total_Wealth)
            endWealth == Round2(LastCrossing(df).Total_Wealth)
        IN  /\ result.starting_retirement_wealth = startWealth
            /\ result.ending_retirement_wealth = endWealth
            /\ result.delta_TW_retirement = Round2(endWealth - startWealth)
            /\ result.increasing_TW = (endWealth > startWealth)

(***************************************************************************)
(* C9.  Event state is isolated per simulation: no step changes the event  *)
(* objects the caller passed (or the default list); the validation run     *)
(* starts with copies equal to them, every dependent's age counter 0 and   *)
(* active flag off, however far the base run has advanced its own events;  *)
(* and the validation ledger is the ledger of the same simulation run      *)
(* alone.                                                                  *)
(***************************************************************************)
C9_CallerEventsUntouched ==
    /\ events' = events
    /\ \A k \in 1..Len(events) : heap'[events[k]] = heap[events[k]]

C9_ValidationStartsFresh ==
    (run.obj = "newSimulation" /\ run.loop = "working" /\ run.lifetime = << >>) =>
        /\ Len(newSimulation.events) = Len(events)
        /\ \A k \in 1..Len(events) :
              /\ heap[newSimulation.events[k]] = heap[events[k]]
              /\ heap[newSimulation.events[k]].kid_age = 0
              /\ ~ heap[newSimulation.events[k]].active

C9_ValidationAsIfAlone ==
    (pc \in {"validated", "done"} /\ HasLedger("newSimulation")) =>
        Ledger("newSimulation") = RunAlone(newSimulation.target_retirement_age)

C9_EventIsolation ==
    /\ [](C9_ValidationStartsFresh /\ C9_ValidationAsIfAlone)
    /\ [][C9_CallerEventsUntouched]_vars

\* the validation run has finished after a base run that aged a dependent
C9_Witness ==
    /\ pc = "done"
    /\ Retirable
    /\ \E k \in 1..Len(events) :
          /\ heap[events[k]].cls = "Kid"
          /\ heap[events[k]].kid_age = 0
          /\ heap[self.events[k]].kid_age > 1
          /\ heap[newSimulation.events[k]].kid_age > 1

(***************************************************************************)
(* C10.  No simulator is constructed with targetRetirementAge <=           *)
(* startWorkingAge or with a negative deathAge: construction fails, and no *)
(* ledger is built from such parameters.                                   *)
(***************************************************************************)
C10_InvalidAgesRejected ==
    self # NoObject =>
        /\ self.target_retirement_age > self.start_working_age
        /\ self.death_age >= 0

\* C11: a run carries no state into the next: the ledger of a second
\* run_simulation on the same simulator is the ledger of the first.
C11_SecondRunSameLedger ==
    (pc = "ran" /\ results # None) => self.summaryDf = results

\* the Kid objects of the simulator the caller built
KidsOf(sim) == { sim.events[k] : k \in {j \in 1..Len(sim.events) : heap[sim.events[j]].cls = "Kid"} }

\* the years a Kid that starts at s has been active before the update at age a
\* of a simulator that started at age first
ActiveYears(s, first, a) == a - (IF s > first THEN s ELSE first)

\* a year of run_simulation on the caller's simulator: a row is appended
YearStep ==
    /\ run.obj = "self"
    /\ run'.obj = "self"
    /\ Len(run'.lifetime) = Len(run.lifetime) + 1

\* what the Kid at reference k adds to wealth in the year just simulated
Contribution(k) == IF heap'[k].active THEN heap'[k].net_flow ELSE 0

KidYearAsClaimed(k) ==
    LET e == heap[k]
        n == ActiveYears(e.start_age, self.start_working_age, self.age)
    IN  IF self.age < e.start_age
        THEN /\ Contribution(k) = 0
             /\ heap'[k].kid_age = e.kid_age
             /\ e.kid_age = 0
        ELSE /\ e.kid_age = n
             /\ heap'[k].kid_age = e.kid_age + 1
             /\ Contribution(k) =
                  IF n < 18 THEN 0 - self.child_costs
                  ELSE IF n < 22 /\ e.college THEN 0 - self.college_price
                  ELSE 0

\* C12: over the yearly updates of a run, a Kid with start age s adds nothing
\* below age s; its counter grows by one at every update at which it is
\* active and at no other; it costs the current child cost in its first 18
\* active years, the current college price in the next 4 when its college
\* flag is set, and nothing otherwise; the ledger's wealth moves by that.
C12_KidSchedule ==
    [][YearStep =>
         /\ \A k \in KidsOf(self) : KidYearAsClaimed(k)
         /\ Len(self.events) = 1 =>
               run'.lifetime[Len(run'.lifetime)].Total_Wealth
                 = self.total_wealth + Contribution(self.events[1])]_vars

\* a Kid bound for college is past its college years and costs nothing
C12_Witness ==
    /\ pc = "running"
    /\ \E k \in KidsOf(self) :
         /\ heap[k].college
         /\ heap[k].start_age > self.start_working_age
         /\ heap[k].kid_age = 23
         /\ heap[k].active
         /\ heap[k].net_flow = 0

\* a year of run_simulation on either simulator: a row is appended
AnyYearStep ==
    /\ run.obj # "none"
    /\ run'.obj = run.obj
    /\ Len(run'.lifetime) = Len(run.lifetime) + 1

\* the stage of the claimed order a logged statement belongs to
Stage(l) ==
    CASE l = "events" -> 1
      [] l = "record" -> 2
      [] l = "wealth" -> 3
      [] l = "inflation" -> 4
      [] l = "raise" -> 4

Once(order, l) == Cardinality({k \in 1..Len(order) : order[k] = l}) = 1

\* C13 as stated: in every year of both loops the event flows are applied,
\* then the row is recorded, then earnings or withdrawal move wealth, then
\* costs are inflated and the wage raised, each once.
C13_FixedOrder ==
    (run.obj # "none" /\ run.order # << >>) =>
        /\ \A l \in {"events", "record", "wealth", "inflation"} : Once(run.order, l)
        /\ \A a, b \in 1..Len(run.order) :
              a < b => Stage(run.order[a]) <= Stage(run.order[b])

YearAsCoded ==
    LET sim == Obj(run.obj)
        after == IF run.obj = "self" THEN self' ELSE newSimulation'
        row == run'.lifetime[Len(run'.lifetime)]
        flow == total_events_net_flow(after, heap')
        yrs == run.i - sim.start_working_age
    IN  /\ row.Age = run.i
        /\ row.Total_Wealth = sim.total_wealth + flow
        /\ row.Cost_of_Living = sim.cost_of_living
        /\ after.cost_of_living = sim.cost_of_living + MulRate(sim.cost_of_living, sim.inflation)
        /\ after.child_costs = sim.child_costs + MulRate(sim.child_costs, sim.inflation)
        /\ after.college_price = sim.college_price + MulRate(sim.college_price, sim.inflation)
        /\ after.age = sim.age + 1
        /\ IF run.loop = "working"
           THEN /\ run'.order = <<"events", "record", "wealth", "inflation", "raise">>
                /\ row.Wage = Some(sim.wage)
                /\ after.wage = sim.wage + MulRate(sim.wage, sim.yearly_raise)
                /\ after.total_wealth =
                     row.Total_Wealth
                     + (sim.wage - calculate_state_tax(sim)
                        - calculate_federal_tax(sim, yrs) - sim.cost_of_living)
                     + MulRate(row.Total_Wealth, sim.rate_of_return)
           ELSE /\ run'.order = <<"events", "record", "inflation", "wealth">>
                /\ row.Wage = None
                /\ after.wage = sim.wage
                /\ after.total_wealth =
                     row.Total_Wealth
                     + MulRate(row.Total_Wealth, sim.rate_of_return)
                     - MulRate(row.Total_Wealth, sim.withdrawl_rate)

\* C13, amended: every year applies the event flows and then records the row,
\* so the row holds wealth with the year's flows and before the year's wage,
\* return or withdrawal, and the cost of living before the year's inflation.
\* A working year then adds the earnings to wealth, inflates the costs and
\* raises the wage; a retirement year inflates the costs and then adds return
\* minus withdrawal to wealth, and leaves the wage alone.  Each is done once.
C13_YearStepOrder == [][AnyYearStep => YearAsCoded]_vars

\* a retirement year has run after a working year
C13_Witness ==
    /\ run.obj # "none"
    /\ run.loop = "retirement"
    /\ run.order = <<"events", "record", "inflation", "wealth">>
    /\ run.lifetime[1].Wage # None
    /\ run.lifetime[Len(run.lifetime)].Wage = None

\* C14: when the search reports that retiring at the candidate age is
\* sustainable until death, every row of the validation ledger from the
\* candidate age to the death age has a post-tax withdrawal above the cost
\* of living.
C14_SustainableCoversEveryYear ==
    (pc = "done" /\ result.verdict = "sustainable" /\ ValidAges(self)) =>
        \A k \in 1..Len(Ledger("newSimulation")) :
            LET row == Ledger("newSimulation")[k]
            IN  (result.best_age <= row.Age /\ row.Age <= self.death_age)
                    => Gt(row.Withdrawl, row.Cost_of_Living)

\* C15: when the base ledger has a crossing row, so has the validation
\* ledger, and get_earliest_retirement on a simulator that has been run ends
\* with one of its three verdicts: it never fails on a selection of crossing
\* rows, whether or not the candidate was raised to work_till_at_least.
C15_SearchCompletes ==
    /\ (pc = "validated" /\ ValidAges(self)) => HasCrossing(Ledger("newSimulation"))
    /\ (pc = "done" /\ HasLedger("self") /\ ValidAges(self)) =>
           result.verdict \in {"unreachable", "insufficient", "sustainable"}

=============================================================================
